---- MODULE Spec2Model ----
(***************************************************************************)
(* Model of the progression ledger of the obsidian-roguelike plugin:       *)
(* ProfileService (completeTask, checkAchievements, performUndo,           *)
(* addUndoEntry, save), the level curve and LootService.rollForLoot, the   *)
(* goal notes of NoteService, the loading of the stored profile and the    *)
(* toggle command of the plugin, run alone and overlapping with itself.    *)
(*                                                                         *)
(* Conventions                                                             *)
(*   - calendar dates ("YYYY-MM-DD") are day numbers 1..MaxDay; 0 stands   *)
(*     for an absent date (undefined / empty string, both falsy in JS);    *)
(*   - an ISO timestamp is modelled by its date part; the name of a loot   *)
(*     item (drawn from a theme dictionary) is left out;                   *)
(*   - probabilities and Math.random() draws are in thousandths;           *)
(*   - an achievement id `${type}_${threshold}` is the pair                *)
(*     <<type, threshold>>; the literal ids 'speedrun', 'nightowl' and     *)
(*     'earlybird' are <<id, 0>>;                                          *)
(*   - completedByDay is a total function on the modelled days, a missing  *)
(*     key being 0 (the code reads it through `|| 0` and truthiness only). *)
(***************************************************************************)
EXTENDS Integers, Sequences, FiniteSets, TLC

VARIABLES
    profile,     \* ProfileService.profile (the plugin's profile aliases it)
    today,       \* the date of the wall clock at the last call
    hour,        \* the hour of day at which the user works (getHours())
    now,         \* number of ledger calls made so far
    call,        \* the last ledger call and its arguments
    ret,         \* the value that call returned
    saveInvoked, \* did that call invoke the persistence callback
    persisted,   \* the snapshot handed to the last saveCallback
    undoCheck,   \* history: progress of a complete / record / undo sequence
    undone,      \* history: has any undo succeeded yet
    recorded,    \* history: the UndoEntries recorded before any undo, newest
                 \* first
    vault,       \* the goal notes of the vault, in order of creation
    handlers     \* the toggle commands invoked so far, each with the await
                 \* it has reached, in order of invocation

vars == <<profile, today, hour, now, call, ret, saveInvoked, persisted,
          undoCheck, undone, recorded, vault,
                   handlers>>

----------------------------------------------------------------------------
(* Bounds *)

MaxTime == 4        \* ledger calls per behaviour of Spec
MaxRunTime == 22    \* ledger calls per behaviour of RunSpec
MaxDay == 3         \* modelled calendar days
MaxInv == 2         \* loot items kept in the inventory
MaxXP == 2100       \* largest experience total given to the level curve
MaxLevel == 200     \* largest level given to the loot tables
MaxNoteTime == 4    \* goal commands per behaviour of NoteSpec
MaxNotes == 2       \* goal notes in the vault
MaxLoadTime == 2    \* calls per behaviour of LoadSpec, the load included
MaxLootTime == 2    \* completions per behaviour of LootSpec
MaxHandlers == 3    \* toggle commands per behaviour of AsyncSpec

(* Program constants *)

UNDO_LIMIT == 10
BaseXP == 100

Days == 1..MaxDay
Hours == {4, 5, 6, 7, 12}

Max(a, b) == IF a >= b THEN a ELSE b
Min(a, b) == IF a <= b THEN a ELSE b

RECURSIVE Pow(_, _)
Pow(b, e) == IF e = 0 THEN 1 ELSE b * Pow(b, e - 1)

----------------------------------------------------------------------------
(* Level curve *)

\* Math.floor(100 * Math.pow(1.5, level - 1))
xpForLevel(level) == (BaseXP * Pow(3, level - 1)) \div Pow(2, level - 1)

\* variant: the loop stops when the next requirement is exactly met
RECURSIVE levelLoop_strict(_, _, _)
levelLoop_strict(xp, level, totalRequired) ==
    IF totalRequired + xpForLevel(level) < xp
    THEN levelLoop_strict(xp, level + 1, totalRequired + xpForLevel(level))
    ELSE level

\* variant: each requirement is compared with xp on its own, not the sum
RECURSIVE levelLoop_noAccumulate(_, _, _)
levelLoop_noAccumulate(xp, level, totalRequired) ==
    IF xpForLevel(level) <= xp
    THEN levelLoop_noAccumulate(xp, level + 1, totalRequired)
    ELSE level

RECURSIVE levelLoop(_, _, _)
levelLoop(xp, level, totalRequired) ==
    IF totalRequired + xpForLevel(level) <= xp
    THEN levelLoop(xp, level + 1, totalRequired + xpForLevel(level))
    ELSE level

levelFromXP(xp) == levelLoop(xp, 1, 0)

\* the for loop of xpToNextLevel: xpForLevel(1) + ... + xpForLevel(level - 1)
RECURSIVE totalForCurrentLevel(_)
totalForCurrentLevel(level) ==
    IF level <= 1 THEN 0
    ELSE totalForCurrentLevel(level - 1) + xpForLevel(level - 1)

\* The hundredths k of 0..99 for which the double (k / 100) * 100 is below
\* k: 0.29 * 100 = 28.999999999999996, 0.57 * 100 = 56.99999999999999,
\* 0.58 * 100 = 57.99999999999999. For every other k the product is k or
\* just above it.
RoundsBelow == {29, 57, 58}

\* Math.floor((a / b) * 100) in IEEE-754 double arithmetic, for integers
\* 0 <= a < b. When 100a/b is an integer k the quotient a / b is the double
\* nearest k/100, so the outcome depends on k alone; otherwise 100a/b is at
\* least 1/b away from an integer, far more than the rounding error, and
\* the floor is the exact one.
floorPercent(a, b) ==
    LET k == (100 * a) \div b
    IN  IF k * b = 100 * a /\ k \in RoundsBelow THEN k - 1 ELSE k

xpToNextLevel(xp) ==
    LET level == levelFromXP(xp)
        xpInCurrentLevel == xp - totalForCurrentLevel(level)
        required == xpForLevel(level)
    IN  [ current |-> xpInCurrentLevel,
          required |-> required,
          progress |-> floorPercent(xpInCurrentLevel, required) ]

----------------------------------------------------------------------------
(* Types *)

createDefaultProfile ==
    [ totalXP |-> 0,
      level |-> 1,
      tasksCompleted |-> 0,
      bossesDefeated |-> 0,
      currentStreak |-> 0,
      longestStreak |-> 0,
      lastCompletionDate |-> 0,
      achievements |-> <<>>,
      inventory |-> <<>>,
      undoHistory |-> <<>>,
      stats |-> [ completedByDay |-> [d \in Days |-> 0],
                  deepestDepth |-> 0,
                  speedruns |-> 0,
                  nightOwlTasks |-> 0,
                  earlyBirdTasks |-> 0 ] ]

ACHIEVEMENT_THRESHOLDS ==
    [ tasks |-> <<1, 10, 50, 100, 250, 500, 1000, 2500, 5000, 10000>>,
      bosses |-> <<1, 5, 10, 25, 50, 100, 250, 500>>,
      streaks |-> <<3, 7, 14, 30, 60, 90, 180, 365>>,
      depths |-> <<3, 5, 7, 10, 15, 20>>,
      levels |-> <<5, 10, 25, 50, 100, 150, 200>>,
      xp |-> <<1000, 5000, 10000, 50000, 100000, 500000, 1000000>> ]

getAchievementId(type, threshold) == <<type, threshold>>

----------------------------------------------------------------------------
(* LootService *)

Rarities == <<"common", "uncommon", "rare", "epic", "legendary">>

\* variant: the uncommon weight is not capped at 0.30
getDropChances_uncapped(level) ==
    LET legendaryWeight == Min(50, level * 2)
        epicWeight == Min(100, level * 4)
        rareWeight == Min(200, 50 + level * 5)
        uncommonWeight == 150 + level * 5
    IN  [ dropRate |-> Max(50, 300 - level * 10),
          rarityWeights |->
            [ common |-> 1000 - legendaryWeight - epicWeight
                              - rareWeight - uncommonWeight,
              uncommon |-> uncommonWeight,
              rare |-> rareWeight,
              epic |-> epicWeight,
              legendary |-> legendaryWeight ] ]

\* variant: the base drop rate has no 5% floor
getDropChances_noFloor(level) ==
    LET legendaryWeight == Min(50, level * 2)
        epicWeight == Min(100, level * 4)
        rareWeight == Min(200, 50 + level * 5)
        uncommonWeight == Min(300, 150 + level * 5)
    IN  [ dropRate |-> 300 - level * 10,
          rarityWeights |->
            [ common |-> 1000 - legendaryWeight - epicWeight
                              - rareWeight - uncommonWeight,
              uncommon |-> uncommonWeight,
              rare |-> rareWeight,
              epic |-> epicWeight,
              legendary |-> legendaryWeight ] ]

\* thousandths
getDropChances(level) ==
    LET legendaryWeight == Min(50, level * 2)
        epicWeight == Min(100, level * 4)
        rareWeight == Min(200, 50 + level * 5)
        uncommonWeight == Min(300, 150 + level * 5)
    IN  [ dropRate |-> Max(50, 300 - level * 10),
          rarityWeights |->
            [ common |-> 1000 - legendaryWeight - epicWeight
                              - rareWeight - uncommonWeight,
              uncommon |-> uncommonWeight,
              rare |-> rareWeight,
              epic |-> epicWeight,
              legendary |-> legendaryWeight ] ]

\* tenths
SOURCE_MULTIPLIERS ==
    [ task |-> 10, levelup |-> 30, achievement |-> 25, boss |-> 20 ]

RECURSIVE selectRarityLoop(_, _, _, _)
selectRarityLoop(weights, roll, i, cumulative) ==
    IF i > Len(Rarities) THEN "common"
    ELSE IF roll < cumulative + weights[Rarities[i]] THEN Rarities[i]
    ELSE selectRarityLoop(weights, roll, i + 1,
                          cumulative + weights[Rarities[i]])

selectRarity(weights, roll) == selectRarityLoop(weights, roll, 1, 0)

\* Math.min(0.95, dropRate * SOURCE_MULTIPLIERS[source]), thousandths
adjustedDropRate(level, source) ==
    Min(950, (getDropChances(level).dropRate * SOURCE_MULTIPLIERS[source])
                 \div 10)

\* draw = <<the drop roll, the rarity roll>>, both Math.random() * 1000
rollForLoot(level, source, draw, day) ==
    LET chances == getDropChances(level)
    IN  IF draw[1] > adjustedDropRate(level, source)
        THEN [ dropped |-> FALSE, item |-> <<>> ]
        ELSE [ dropped |-> TRUE,
               item |-> << [ rarity |-> selectRarity(chances.rarityWeights,
                                                     draw[2]),
                             droppedAt |-> day,
                             source |-> source ] >> ]

----------------------------------------------------------------------------
(* ProfileService *)

Includes(seq, x) == \E i \in 1..Len(seq) : seq[i] = x

\* variant: a threshold counts only once the counter is above it
RECURSIVE metIds_strict(_, _, _, _)
metIds_strict(type, table, counter, i) ==
    IF i > Len(table) THEN <<>>
    ELSE (IF counter > table[i]
          THEN <<getAchievementId(type, table[i])>> ELSE <<>>)
         \o metIds_strict(type, table, counter, i + 1)

\* the thresholds of a table that the counter meets, as ids, in table order
RECURSIVE metIds(_, _, _, _)
metIds(type, table, counter, i) ==
    IF i > Len(table) THEN <<>>
    ELSE (IF counter >= table[i]
          THEN <<getAchievementId(type, table[i])>> ELSE <<>>)
         \o metIds(type, table, counter, i + 1)

\* variant: the early-bird window is the one of the earlyBirdTasks counter
achievementCandidates_earlyBirdCounter(p, createdDate, day, hr) ==
    metIds("tasks", ACHIEVEMENT_THRESHOLDS.tasks, p.tasksCompleted, 1)
    \o metIds("bosses", ACHIEVEMENT_THRESHOLDS.bosses, p.bossesDefeated, 1)
    \o metIds("depth", ACHIEVEMENT_THRESHOLDS.depths, p.stats.deepestDepth, 1)
    \o metIds("streak", ACHIEVEMENT_THRESHOLDS.streaks, p.currentStreak, 1)
    \o metIds("level", ACHIEVEMENT_THRESHOLDS.levels, p.level, 1)
    \o metIds("xp", ACHIEVEMENT_THRESHOLDS.xp, p.totalXP, 1)
    \o (IF createdDate # 0 /\ createdDate = day
        THEN << <<"speedrun", 0>> >> ELSE <<>>)
    \o (IF hr >= 0 /\ hr < 5 THEN << <<"nightowl", 0>> >> ELSE <<>>)
    \o (IF hr >= 0 /\ hr < 6 THEN << <<"earlybird", 0>> >> ELSE <<>>)

\* the ids checkAchievement(id) is called with, in call order
achievementCandidates(p, createdDate, day, hr) ==
    metIds("tasks", ACHIEVEMENT_THRESHOLDS.tasks, p.tasksCompleted, 1)
    \o metIds("bosses", ACHIEVEMENT_THRESHOLDS.bosses, p.bossesDefeated, 1)
    \o metIds("depth", ACHIEVEMENT_THRESHOLDS.depths, p.stats.deepestDepth, 1)
    \o metIds("streak", ACHIEVEMENT_THRESHOLDS.streaks, p.currentStreak, 1)
    \o metIds("level", ACHIEVEMENT_THRESHOLDS.levels, p.level, 1)
    \o metIds("xp", ACHIEVEMENT_THRESHOLDS.xp, p.totalXP, 1)
    \o (IF createdDate # 0 /\ createdDate = day
        THEN << <<"speedrun", 0>> >> ELSE <<>>)
    \o (IF hr >= 0 /\ hr < 5 THEN << <<"nightowl", 0>> >> ELSE <<>>)
    \o (IF hr >= 5 /\ hr < 7 THEN << <<"earlybird", 0>> >> ELSE <<>>)

\* variant: no includes() test before the push
RECURSIVE checkAchievement_noIncludes(_, _, _)
checkAchievement_noIncludes(achievements, newAchievements, ids) ==
    IF ids = <<>>
    THEN [ achievements |-> achievements, newAchievements |-> newAchievements ]
    ELSE checkAchievement_noIncludes(Append(achievements, Head(ids)),
                                     Append(newAchievements, Head(ids)),
                                     Tail(ids))

\* the inner closure checkAchievement, folded over the candidate ids
RECURSIVE checkAchievement(_, _, _)
checkAchievement(achievements, newAchievements, ids) ==
    IF ids = <<>>
    THEN [ achievements |-> achievements, newAchievements |-> newAchievements ]
    ELSE IF ~Includes(achievements, Head(ids))
         THEN checkAchievement(Append(achievements, Head(ids)),
                               Append(newAchievements, Head(ids)), Tail(ids))
         ELSE checkAchievement(achievements, newAchievements, Tail(ids))

checkAchievements(p, createdDate, day, hr) ==
    checkAchievement(p.achievements, <<>>,
                     achievementCandidates(p, createdDate, day, hr))

save(p) == [p EXCEPT !.level = levelFromXP(p.totalXP)]

\* this.profile.stats[f] || 0: a counter the stats bag may lack
statOrZero(p, f) == IF f \in DOMAIN p.stats THEN p.stats[f] ELSE 0

\* assignment to a counter of the stats bag, which creates it if absent
withStat(p, f, value) ==
    [p EXCEPT !.stats = [ g \in DOMAIN @ \cup {f} |->
                            IF g = f THEN value ELSE @[g] ]]

\* lines 104-114: special completions and deepest depth
trackSpecial(p, depth, createdDate, day, hr) ==
    LET p1 == IF createdDate # 0 /\ createdDate = day
              THEN withStat(p, "speedruns", statOrZero(p, "speedruns") + 1)
              ELSE p
        p2 == IF hr >= 0 /\ hr < 6
              THEN withStat(p1, "earlyBirdTasks",
                            statOrZero(p1, "earlyBirdTasks") + 1)
              ELSE p1
        p3 == IF hr >= 0 /\ hr < 5
              THEN withStat(p2, "nightOwlTasks",
                            statOrZero(p2, "nightOwlTasks") + 1)
              ELSE p2
    IN  withStat(p3, "deepestDepth",
                 Max(statOrZero(p3, "deepestDepth"), depth))

\* variant: a gap of more than one day does not reset the streak
updateStreak_noReset(p, day) ==
    LET diffDays == day - p.lastCompletionDate
        current ==
            IF p.lastCompletionDate # 0
            THEN (IF diffDays >= 1 THEN p.currentStreak + 1
                  ELSE p.currentStreak)
            ELSE 1
    IN  [p EXCEPT !.currentStreak = current,
                  !.longestStreak = Max(@, current),
                  !.lastCompletionDate = day]

\* variant: longestStreak is not raised
updateStreak_noLongest(p, day) ==
    LET diffDays == day - p.lastCompletionDate
        current ==
            IF p.lastCompletionDate # 0
            THEN (IF diffDays = 1 THEN p.currentStreak + 1
                  ELSE IF diffDays > 1 THEN 1
                  ELSE p.currentStreak)
            ELSE 1
    IN  [p EXCEPT !.currentStreak = current,
                  !.lastCompletionDate = day]

\* lines 116-134: streak bookkeeping
updateStreak(p, day) ==
    LET diffDays == day - p.lastCompletionDate
        current ==
            IF p.lastCompletionDate # 0
            THEN (IF diffDays = 1 THEN p.currentStreak + 1
                  ELSE IF diffDays > 1 THEN 1
                  ELSE p.currentStreak)
            ELSE 1
    IN  [p EXCEPT !.currentStreak = current,
                  !.longestStreak = Max(@, current),
                  !.lastCompletionDate = day]

\* variant: the item reported is the last successful roll
rollAll_reportsLast(p, isBoss, levelUp, newAchievements, draws, day) ==
    LET taskLoot == rollForLoot(p.level, IF isBoss THEN "boss" ELSE "task",
                                draws[1], day)
        levelLoot == IF levelUp
                     THEN rollForLoot(p.level, "levelup", draws[2], day)
                     ELSE [ dropped |-> FALSE, item |-> <<>> ]
        achievementLoot ==
            IF Len(newAchievements) > 0
            THEN rollForLoot(p.level, "achievement", draws[3], day)
            ELSE [ dropped |-> FALSE, item |-> <<>> ]
        gained == taskLoot.item \o levelLoot.item \o achievementLoot.item
    IN  [ inventory |-> p.inventory \o gained,
          lootDropped |-> IF gained = <<>> THEN <<>>
                          ELSE <<gained[Len(gained)]>> ]

\* lines 148-183: draws[1] is the task/boss roll, draws[2] the level-up
\* roll, draws[3] the achievement roll
rollAll(p, isBoss, levelUp, newAchievements, draws, day) ==
    LET taskLoot == rollForLoot(p.level, IF isBoss THEN "boss" ELSE "task",
                                draws[1], day)
        levelLoot == IF levelUp
                     THEN rollForLoot(p.level, "levelup", draws[2], day)
                     ELSE [ dropped |-> FALSE, item |-> <<>> ]
        achievementLoot ==
            IF Len(newAchievements) > 0
            THEN rollForLoot(p.level, "achievement", draws[3], day)
            ELSE [ dropped |-> FALSE, item |-> <<>> ]
        gained == taskLoot.item \o levelLoot.item \o achievementLoot.item
    IN  [ inventory |-> p.inventory \o gained,
          lootDropped |-> IF gained = <<>> THEN <<>> ELSE <<Head(gained)>> ]

\* variant: the XP total is overwritten, not added to
addXP_overwrites(p, xp, isBoss) ==
    [p EXCEPT !.totalXP = xp,
              !.tasksCompleted = @ + 1,
              !.bossesDefeated = IF isBoss THEN @ + 1 ELSE @]

\* variant: the boss multiplier is applied again to the xp given
addXP_bossTriple(p, xp, isBoss) ==
    [p EXCEPT !.totalXP = @ + xp * (IF isBoss THEN 3 ELSE 1),
              !.tasksCompleted = @ + 1,
              !.bossesDefeated = IF isBoss THEN @ + 1 ELSE @]

\* lines 96-102: the counters
addXP(p, xp, isBoss) ==
    [p EXCEPT !.totalXP = @ + xp,
              !.tasksCompleted = @ + 1,
              !.bossesDefeated = IF isBoss THEN @ + 1 ELSE @]

completeTask(p, xp, isBoss, depth, createdDate, day, hr, draws) ==
    LET oldLevel == p.level
        p1 == addXP(p, xp, isBoss)
        p2 == trackSpecial(p1, depth, createdDate, day, hr)
        p3 == updateStreak(p2, day)
        p4 == [p3 EXCEPT !.stats.completedByDay[day] = @ + 1]
        p5 == [p4 EXCEPT !.level = levelFromXP(p4.totalXP)]
        levelUp == p5.level > oldLevel
        checked == checkAchievements(p5, createdDate, day, hr)
        p6 == [p5 EXCEPT !.achievements = checked.achievements]
        loot == rollAll(p6, isBoss, levelUp, checked.newAchievements, draws,
                        day)
        p7 == save([p6 EXCEPT !.inventory = loot.inventory])
    IN  IF "completedByDay" \notin DOMAIN p3.stats
        THEN \* line 138 reads a key of undefined: the call throws there
             [ profile |-> p3,
               saved |-> FALSE,
               result |-> [ threw |-> "TypeError" ] ]
        ELSE [ profile |-> p7,
               saved |-> TRUE,
               result |-> [ xpGained |-> xp,
                            levelUp |-> levelUp,
                            oldLevel |-> oldLevel,
                            newLevel |-> p7.level,
                            newAchievements |-> checked.newAchievements,
                            lootDropped |-> loot.lootDropped ] ]

\* !this.profile.undoHistory || this.profile.undoHistory.length === 0
nothingToUndo(p) ==
    \/ "undoHistory" \notin DOMAIN p
    \/ Len(p.undoHistory) = 0

\* variant: the undo also takes the streak back
revert_andStreak(p, entry) ==
    [p EXCEPT !.totalXP = Max(0, @ - entry.xpLost),
              !.tasksCompleted = Max(0, @ - 1),
              !.bossesDefeated = IF entry.wasBoss THEN Max(0, @ - 1) ELSE @,
              !.currentStreak = Max(0, @ - 1)]

\* variant: no Math.max(0, ...) floors
revert_noFloor(p, entry) ==
    [p EXCEPT !.totalXP = @ - entry.xpLost,
              !.tasksCompleted = @ - 1,
              !.bossesDefeated = IF entry.wasBoss THEN @ - 1 ELSE @]

\* lines 272-277: the floored counters
revert(p, entry) ==
    [p EXCEPT !.totalXP = Max(0, @ - entry.xpLost),
              !.tasksCompleted = Max(0, @ - 1),
              !.bossesDefeated = IF entry.wasBoss THEN Max(0, @ - 1) ELSE @]

\* variant: the level is left as it was
undoApplied_staleLevel(p, day) ==
    LET entry == Head(p.undoHistory)
        p1 == revert([p EXCEPT !.undoHistory = Tail(@)], entry)
        p3 == IF p1.stats.completedByDay[day] # 0
              THEN [p1 EXCEPT !.stats.completedByDay[day] = Max(0, @ - 1)]
              ELSE p1
    IN  [ profile |-> p3,
          saved |-> TRUE,
          result |-> [ success |-> TRUE, xpLost |-> entry.xpLost,
                       message |-> <<"Undo: -", entry.xpLost, " XP">> ] ]

\* lines 270-292: performUndo on a non-empty history
undoApplied(p, day) ==
    LET entry == Head(p.undoHistory)
        p1 == revert([p EXCEPT !.undoHistory = Tail(@)], entry)
        p2 == [p1 EXCEPT !.level = levelFromXP(p1.totalXP)]
        p3 == IF p2.stats.completedByDay[day] # 0
              THEN [p2 EXCEPT !.stats.completedByDay[day] = Max(0, @ - 1)]
              ELSE p2
    IN  IF "completedByDay" \notin DOMAIN p2.stats
        THEN \* line 282 reads a key of undefined: the call throws there
             [ profile |-> p2,
               saved |-> FALSE,
               result |-> [ threw |-> "TypeError" ] ]
        ELSE [ profile |-> save(p3),
               saved |-> TRUE,
               result |-> [ success |-> TRUE, xpLost |-> entry.xpLost,
                            message |-> <<"Undo: -", entry.xpLost, " XP">> ] ]

\* variant: the empty case goes through save() like the other exits
performUndo_savesEmpty(p, day) ==
    IF nothingToUndo(p)
    THEN [ profile |-> save(p),
           saved |-> TRUE,
           result |-> [ success |-> FALSE, xpLost |-> 0,
                        message |-> <<"Nothing to undo">> ] ]
    ELSE undoApplied(p, day)

performUndo(p, day) ==
    IF nothingToUndo(p)
    THEN [ profile |-> p,
           saved |-> FALSE,
           result |-> [ success |-> FALSE, xpLost |-> 0,
                        message |-> <<"Nothing to undo">> ] ]
    ELSE undoApplied(p, day)

\* this.profile.undoHistory || []
historyOrEmpty(p) ==
    IF "undoHistory" \in DOMAIN p THEN p.undoHistory ELSE <<>>

\* assignment to a field that may not exist yet
withUndoHistory(p, history) ==
    [ f \in DOMAIN p \cup {"undoHistory"} |->
        IF f = "undoHistory" THEN history ELSE p[f] ]

\* variant: the entry is recorded twice
pushEntry_twice(history, entry) ==
    LET unshifted == <<entry, entry>> \o history
    IN  IF Len(unshifted) > UNDO_LIMIT
        THEN SubSeq(unshifted, 1, UNDO_LIMIT)
        ELSE unshifted

\* variant: push instead of unshift
pushEntry_append(history, entry) ==
    LET pushed == history \o <<entry>>
    IN  IF Len(pushed) > UNDO_LIMIT
        THEN SubSeq(pushed, 1, UNDO_LIMIT)
        ELSE pushed

\* variant: the slice keeps one entry too many
pushEntry_keepsEleven(history, entry) ==
    LET unshifted == <<entry>> \o history
    IN  IF Len(unshifted) > UNDO_LIMIT + 1
        THEN SubSeq(unshifted, 1, UNDO_LIMIT + 1)
        ELSE unshifted

\* unshift, then slice(0, 10)
pushEntry(history, entry) ==
    LET unshifted == <<entry>> \o history
    IN  IF Len(unshifted) > UNDO_LIMIT
        THEN SubSeq(unshifted, 1, UNDO_LIMIT)
        ELSE unshifted

addUndoEntry(p, path, xpLost, wasBoss, day) ==
    LET entry == [ path |-> path, xpLost |-> xpLost,
                   wasBoss |-> wasBoss, timestamp |-> day ]
        kept == pushEntry(historyOrEmpty(p), entry)
    IN  [ profile |-> save(withUndoHistory(p, kept)),
          saved |-> TRUE,
          result |-> [ void |-> TRUE ] ]

----------------------------------------------------------------------------
(* NoteService                                                              *)
(* A file or folder name is a sequence of words, a leading tag such as      *)
(* "[BOSS]" being a word of its own; a folder path is the sequence of its   *)
(* folder names from the vault root. A goal note is                         *)
(* [folderPath, fileName, content], content being its inline fields; the    *)
(* heading, the description and the schema and map sections are left out.   *)
(* Every goal note lies in a folder.                                        *)

GoalStatus == {"open", "done", "blocked"}

createSafeFolderName(name, isBoss) ==
    IF isBoss THEN <<"[BOSS]">> \o name ELSE name

NonEmpty(segment) == segment # <<>>

\* folderPath.split('/').filter(p => p.length > 0).length
calculateDepth(folderPath) == Len(SelectSeq(folderPath, NonEmpty))

\* variant: the depth bonus is added after the boss multiplier
calculateXP_bossFirst(depth, isBoss) ==
    LET baseXP == 10
        depthBonus == depth * 5
        bossMultiplier == IF isBoss THEN 3 ELSE 1
    IN  baseXP * bossMultiplier + depthBonus

calculateXP(depth, isBoss) ==
    LET baseXP == 10
        depthBonus == depth * 5
        bossMultiplier == IF isBoss THEN 3 ELSE 1
    IN  (baseXP + depthBonus) * bossMultiplier

\* `[[${name}]]`
WikiLink(name) == <<"[[", name, "]]">>

IsWikiLink(token) == Len(token) = 3 /\ token[1] = "[[" /\ token[3] = "]]"

LinkedName(token) == token[2]

\* the inline fields written for a config; completed only when done. An
\* absent deadline is "", an absent blocker list <<>>, and the config that
\* parseGoalNote returns has no author at all.
generateGoalNoteContent(config) ==
    [ status |-> config.status,
      boss |-> config.isBoss,
      xp |-> config.xp,
      deadline |-> IF config.deadline # "" THEN config.deadline
                   ELSE "not set",
      author |-> IF "author" \in DOMAIN config /\ config.author # ""
                 THEN WikiLink(config.author)
                 ELSE <<"not set">>,
      blocker |-> IF Len(config.blockedBy) > 0
                  THEN [ k \in 1..Len(config.blockedBy) |->
                           WikiLink(config.blockedBy[k]) ]
                  ELSE << <<"none">> >>,
      created |-> config.createdAt,
      completed |-> IF config.status = "done" THEN config.completedAt ELSE 0 ]

\* the blocker field is the list of its wiki links, the deadline field is
\* kept unless it is 'not set'; the author field is not read
parseGoalNote(note) ==
    LET links == SelectSeq(note.content.blocker, IsWikiLink)
    IN  [ status |-> note.content.status,
          deadline |-> IF note.content.deadline # "not set"
                       THEN note.content.deadline
                       ELSE "",
          completedAt |-> note.content.completed,
          xp |-> note.content.xp,
          isBoss |-> note.content.boss,
          createdAt |-> note.content.created,
          blockedBy |-> IF note.content.blocker # << <<"none">> >>
                        THEN [ k \in 1..Len(links) |-> LinkedName(links[k]) ]
                        ELSE <<>> ]

\* { ...config, ...updates }
merged(config, updates) ==
    [ f \in DOMAIN config |->
        IF f \in DOMAIN updates THEN updates[f] ELSE config[f] ]

updateGoalNote(note, updates) ==
    [note EXCEPT
       !.content = generateGoalNoteContent(merged(parseGoalNote(note),
                                                  updates))]

\* getAbstractFileByPath(notePath): the index of the note, 0 if there is none
noteAt(v, folderPath, fileName) ==
    IF \E i \in 1..Len(v) :
           v[i].folderPath = folderPath /\ v[i].fileName = fileName
    THEN CHOOSE i \in 1..Len(v) :
             v[i].folderPath = folderPath /\ v[i].fileName = fileName
    ELSE 0

getCurrentUser == "Me"

\* xpOption = 0: the caller passes no options.xp (no caller does). No
\* caller passes options.author; the goal is created without a deadline
\* and without blockers, as the manual commands create it and as a schema
\* node that has neither is created.
createGoalWithNote(v, parentPath, name, isBoss, xpOption, day) ==
    LET safeName == createSafeFolderName(name, isBoss)
        folderPath == IF parentPath # <<>>
                      THEN parentPath \o <<safeName>>
                      ELSE <<safeName>>
        depth == calculateDepth(folderPath)
        xp == IF xpOption # 0 THEN xpOption ELSE calculateXP(depth, isBoss)
        note == [ folderPath |-> folderPath,
                  fileName |-> safeName,
                  content |-> generateGoalNoteContent(
                      [ status |-> "open", xp |-> xp, deadline |-> "",
                        isBoss |-> isBoss, createdAt |-> day,
                        completedAt |-> 0, blockedBy |-> <<>>,
                        author |-> getCurrentUser ]) ]
        existingNote == noteAt(v, folderPath, safeName)
    IN  [ vault |-> IF existingNote # 0
                    THEN [v EXCEPT ![existingNote] = note]
                    ELSE Append(v, note),
          result |-> [ folderPath |-> folderPath,
                       notePath |-> <<folderPath, safeName>> ] ]

\* variant: only an open goal is completed, any other status is reopened
toggleGoalStatus_openOnly(note, day) ==
    LET config == parseGoalNote(note)
        newStatus == IF config.status = "open" THEN "done" ELSE "open"
        completedAt == IF newStatus = "done" THEN day ELSE 0
        updates == [ status |-> newStatus, completedAt |-> completedAt ]
    IN  [ note |-> updateGoalNote(note, updates),
          newStatus |-> newStatus,
          config |-> merged(config, updates) ]

toggleGoalStatus(note, day) ==
    LET config == parseGoalNote(note)
        newStatus == IF config.status = "done" THEN "open" ELSE "done"
        completedAt == IF newStatus = "done" THEN day ELSE 0
        updates == [ status |-> newStatus, completedAt |-> completedAt ]
    IN  [ note |-> updateGoalNote(note, updates),
          newStatus |-> newStatus,
          config |-> merged(config, updates) ]

IsPathPrefix(a, b) == Len(a) <= Len(b) /\ SubSeq(b, 1, Len(a)) = a

\* fileManager.renameFile(folder, newFolderPath): the folder moves with all
\* it holds; it fails when the new path is taken
renameFolder(v, oldFolderPath, newFolderPath) ==
    IF \E i \in 1..Len(v) : IsPathPrefix(newFolderPath, v[i].folderPath)
    THEN v
    ELSE [ i \in 1..Len(v) |->
             IF IsPathPrefix(oldFolderPath, v[i].folderPath)
             THEN [v[i] EXCEPT
                     !.folderPath =
                         newFolderPath
                         \o SubSeq(@, Len(oldFolderPath) + 1, Len(@))]
             ELSE v[i] ]

toggleBossStatus(v, i) ==
    LET config == parseGoalNote(v[i])
        newIsBoss == ~config.isBoss
        depth == calculateDepth(v[i].folderPath)
        newXP == calculateXP(depth, newIsBoss)
        updated == [v EXCEPT ![i] = updateGoalNote(v[i],
                                        [ isBoss |-> newIsBoss, xp |-> newXP ])]
        oldFolderPath == v[i].folderPath
        oldFolderName == oldFolderPath[Len(oldFolderPath)]
        baseName == IF oldFolderName # <<>> /\ Head(oldFolderName) = "[BOSS]"
                    THEN Tail(oldFolderName)
                    ELSE oldFolderName
        newFolderName == IF newIsBoss THEN <<"[BOSS]">> \o baseName
                         ELSE baseName
        newFolderPath == SubSeq(oldFolderPath, 1, Len(oldFolderPath) - 1)
                         \o <<newFolderName>>
    IN  [ vault |-> IF oldFolderName # newFolderName
                    THEN renameFolder(updated, oldFolderPath, newFolderPath)
                    ELSE updated,
          result |-> [ isBoss |-> newIsBoss,
                       config |-> merged(config, [ isBoss |-> newIsBoss,
                                                   xp |-> newXP ]) ] ]

----------------------------------------------------------------------------
(* Inputs *)

\* goal notes as toggleGoalDone reads them: the note path, the xp and boss
\* inline fields, the nesting depth of the folder, the created date
Goals ==
    { [ path |-> "A", xp |-> 10, isBoss |-> FALSE, depth |-> 1, created |-> 1 ],
      [ path |-> "B", xp |-> 60, isBoss |-> TRUE, depth |-> 3, created |-> 2 ] }

\* the n-th goal of a long run: a plain 10-XP goal or a 60-XP boss
TenXPGoal(n) ==
    [ path |-> n, xp |-> 10, isBoss |-> FALSE, depth |-> 0, created |-> 0 ]

BossGoal(n) ==
    [ path |-> n, xp |-> 60, isBoss |-> TRUE, depth |-> 2, created |-> 0 ]

RunGoals(n) == { TenXPGoal(n), BossGoal(n) }

\* <<drop roll, rarity roll>> of the task/boss, level-up and achievement
\* rolls: nothing drops, or every roll made drops its rarest tier
NoDrop == <<999, 0>>
AllDrop == <<0, 999>>
DrawPlans == { <<NoDrop, NoDrop, NoDrop>>, <<AllDrop, AllDrop, AllDrop>> }

----------------------------------------------------------------------------
(* State machine *)

NoCheck == [ stage |-> 0, before |-> createDefaultProfile,
             xp |-> 0, isBoss |-> FALSE, day |-> 0, undoDay |-> 0 ]

Init ==
    /\ profile = createDefaultProfile
    /\ today = 1
    /\ hour \in Hours
    /\ now = 0
    /\ call = [ op |-> "none" ]
    /\ ret = [ void |-> TRUE ]
    /\ saveInvoked = FALSE
    /\ persisted = createDefaultProfile
    /\ undoCheck = NoCheck
    /\ undone = FALSE
    /\ recorded = <<>>
    /\ vault = <<>>
    /\ handlers = <<>>

\* the effect of one ledger call on the service and its caller
Finish(out) ==
    /\ profile' = out.profile
    /\ ret' = out.result
    /\ now' = now + 1
    /\ saveInvoked' = out.saved
    /\ persisted' = IF out.saved THEN out.profile ELSE persisted

\* the calendar date a call reads: the clock never runs backwards
ReadClock(d) ==
    /\ d \in today..MaxDay
    /\ today' = d
    /\ UNCHANGED hour

DoCompleteTask(limit, goals, days, plans) ==
    /\ now < limit
    /\ \E g \in goals, d \in days, draws \in plans :
         LET out == completeTask(profile, g.xp, g.isBoss, g.depth, g.created,
                                 d, hour, draws)
         IN  /\ ReadClock(d)
             /\ Len(out.profile.inventory) <= MaxInv
             /\ Finish(out)
             /\ call' = [ op |-> "completeTask", xp |-> g.xp,
                          isBoss |-> g.isBoss, depth |-> g.depth,
                          createdDate |-> g.created, path |-> g.path ]
             /\ undoCheck' = [ stage |-> 1, before |-> profile, xp |-> g.xp,
                               isBoss |-> g.isBoss, day |-> d, undoDay |-> 0 ]
    /\ UNCHANGED <<undone, recorded>>

DoAddUndoEntry(limit, goals) ==
    /\ now < limit
    /\ \E g \in goals :
         LET out == addUndoEntry(profile, g.path, g.xp, g.isBoss, today)
         IN  /\ UNCHANGED <<today, hour>>
             /\ Finish(out)
             /\ call' = [ op |-> "addUndoEntry", path |-> g.path,
                          xpLost |-> g.xp, wasBoss |-> g.isBoss ]
             /\ undoCheck' =
                    IF /\ undoCheck.stage = 1
                       /\ undoCheck.xp = g.xp
                       /\ undoCheck.isBoss = g.isBoss
                    THEN [undoCheck EXCEPT !.stage = 2]
                    ELSE NoCheck
             /\ recorded' =
                    IF undone THEN <<>>
                    ELSE << [ path |-> g.path, xpLost |-> g.xp,
                              wasBoss |-> g.isBoss, timestamp |-> today ] >>
                         \o recorded
    /\ UNCHANGED undone

DoPerformUndo(limit, days) ==
    /\ now < limit
    /\ \E d \in days :
         LET out == performUndo(profile, d)
         IN  /\ ReadClock(d)
             /\ Finish(out)
             /\ call' = [ op |-> "performUndo" ]
             /\ undoCheck' =
                    IF undoCheck.stage = 2 /\ out.result.success
                    THEN [undoCheck EXCEPT !.stage = 3, !.undoDay = d]
                    ELSE NoCheck
             /\ undone' = (undone \/ out.result.success)
             /\ recorded' = IF out.result.success THEN <<>> ELSE recorded

CompleteTask ==
    /\ DoCompleteTask(MaxTime, Goals, Days, DrawPlans)
    /\ UNCHANGED <<vault, handlers>>

AddUndoEntry ==
    /\ DoAddUndoEntry(MaxTime, Goals)
    /\ UNCHANGED <<vault, handlers>>

PerformUndo ==
    /\ DoPerformUndo(MaxTime, Days)
    /\ UNCHANGED <<vault, handlers>>

Next == CompleteTask \/ AddUndoEntry \/ PerformUndo

Spec == Init /\ [][Next]_vars

\* long runs of goals within one day: each completion is recorded before
\* the next call, as toggleGoalDone does
RunInit == Init /\ hour = 12

RunCompleteTask ==
    /\ undoCheck.stage # 1
    /\ DoCompleteTask(MaxRunTime, RunGoals(now + 1), {today},
                      {<<NoDrop, NoDrop, NoDrop>>})
    /\ UNCHANGED <<vault, handlers>>

RunAddUndoEntry ==
    /\ undoCheck.stage = 1
    /\ DoAddUndoEntry(MaxRunTime,
                      { g \in RunGoals(call.path) :
                          g.xp = call.xp /\ g.isBoss = call.isBoss })
    /\ UNCHANGED <<vault, handlers>>

RunPerformUndo ==
    /\ undoCheck.stage # 1
    /\ DoPerformUndo(MaxRunTime, {today})
    /\ UNCHANGED <<vault, handlers>>

\* a service constructed on a stored profile whose undoHistory is absent
LegacyProfile ==
    [ f \in DOMAIN createDefaultProfile \ {"undoHistory"} |->
        createDefaultProfile[f] ]

LegacyInit ==
    /\ profile = LegacyProfile
    /\ today = 1
    /\ hour \in Hours
    /\ now = 0
    /\ call = [ op |-> "none" ]
    /\ ret = [ void |-> TRUE ]
    /\ saveInvoked = FALSE
    /\ persisted = LegacyProfile
    /\ undoCheck = NoCheck
    /\ undone = FALSE
    /\ recorded = <<>>
    /\ vault = <<>>
    /\ handlers = <<>>

LegacySpec == LegacyInit /\ [][Next]_vars

RunNext == RunCompleteTask \/ RunAddUndoEntry \/ RunPerformUndo

RunSpec == RunInit /\ [][RunNext]_vars

----------------------------------------------------------------------------
(* Completions under every outcome of the three loot rolls                  *)

\* a boss deep enough to level up on its own: (10 + 5 * 5) * 3 XP
DeepBossGoal ==
    [ path |-> "C", xp |-> 105, isBoss |-> TRUE, depth |-> 5, created |-> 1 ]

LootGoals == Goals \cup {DeepBossGoal}

\* each of the three rolls fails or succeeds on its own
LootPlans == { <<a, b, c>> : a, b, c \in {NoDrop, AllDrop} }

LootInit == Init /\ hour = 12

LootCompleteTask ==
    /\ now < MaxLootTime
    /\ \E g \in LootGoals, draws \in LootPlans :
         /\ Finish(completeTask(profile, g.xp, g.isBoss, g.depth, g.created,
                                today, hour, draws))
         /\ call' = [ op |-> "completeTask", xp |-> g.xp,
                      isBoss |-> g.isBoss, depth |-> g.depth,
                      createdDate |-> g.created, path |-> g.path,
                      draws |-> draws ]
    /\ UNCHANGED <<today, hour, undoCheck, undone, recorded, vault,
                   handlers>>

LootNext == LootCompleteTask

LootSpec == LootInit /\ [][LootNext]_vars

----------------------------------------------------------------------------
(* The pure functions, each applied once to an argument drawn at the start *)

LootSources == {"task", "levelup", "achievement", "boss"}

\* Math.random() * 1000 of the drop roll and of the rarity roll
DropRolls == {0, 50, 51, 500, 950, 951, 999}
RarityRolls == {0, 999}

PureCalls ==
    { [ op |-> "levelFromXP", xp |-> x ] : x \in 0..MaxXP }
    \cup { [ op |-> "xpToNextLevel", xp |-> x ] : x \in 0..MaxXP }
    \cup { [ op |-> "getDropChances", level |-> l ] : l \in 0..MaxLevel }
    \cup { [ op |-> "rollForLoot", level |-> l, source |-> src,
             draw |-> <<d, r>> ] :
             l \in 0..MaxLevel, src \in LootSources,
             d \in DropRolls, r \in RarityRolls }

PureInit ==
    /\ profile = createDefaultProfile
    /\ today = 1
    /\ hour = 12
    /\ now = 0
    /\ call \in PureCalls
    /\ ret = [ void |-> TRUE ]
    /\ saveInvoked = FALSE
    /\ persisted = createDefaultProfile
    /\ undoCheck = NoCheck
    /\ undone = FALSE
    /\ recorded = <<>>
    /\ vault = <<>>
    /\ handlers = <<>>

\* the pending call returns
Return(op, value) ==
    /\ now = 0
    /\ call.op = op
    /\ ret' = value
    /\ now' = 1
    /\ UNCHANGED <<profile, today, hour, call, saveInvoked, persisted,
                   undoCheck, undone, recorded, vault,
                   handlers>>

ApplyLevelFromXP ==
    Return("levelFromXP", [ level |-> levelFromXP(call.xp) ])

ApplyXpToNextLevel == Return("xpToNextLevel", xpToNextLevel(call.xp))

ApplyGetDropChances == Return("getDropChances", getDropChances(call.level))

ApplyRollForLoot ==
    Return("rollForLoot",
           rollForLoot(call.level, call.source, call.draw, today))

PureNext ==
    \/ ApplyLevelFromXP
    \/ ApplyXpToNextLevel
    \/ ApplyGetDropChances
    \/ ApplyRollForLoot

PureSpec == PureInit /\ [][PureNext]_vars

----------------------------------------------------------------------------
(* Loading the stored plugin data, then one ledger call                     *)

\* an object without fields: no stored profile (data is null or has none)
NoFields == [ f \in {} |-> 0 ]

Restrict(rec, fields) == [ f \in DOMAIN rec \cap fields |-> rec[f] ]

\* Object.assign({}, createDefaultProfile(), data?.profile): a field of
\* the stored profile replaces the default one whole, the stats bag too
loadData_(stored) ==
    [ f \in DOMAIN createDefaultProfile \cup DOMAIN stored |->
        IF f \in DOMAIN stored THEN stored[f] ELSE createDefaultProfile[f] ]

\* a profile as an earlier session saved it: two goals done, one a boss
SavedProfile ==
    [ totalXP |-> 70,
      level |-> 1,
      tasksCompleted |-> 2,
      bossesDefeated |-> 1,
      currentStreak |-> 1,
      longestStreak |-> 1,
      lastCompletionDate |-> 1,
      achievements |-> << <<"tasks", 1>>, <<"bosses", 1>> >>,
      inventory |-> <<>>,
      undoHistory |-> << [ path |-> "B", xpLost |-> 60, wasBoss |-> TRUE,
                           timestamp |-> 1 ] >>,
      stats |-> [ completedByDay |-> [d \in Days |-> IF d = 1 THEN 2 ELSE 0],
                  deepestDepth |-> 3,
                  speedruns |-> 0,
                  nightOwlTasks |-> 0,
                  earlyBirdTasks |-> 0 ] ]

\* fields a stored profile may lack: written by a version that had not
\* introduced them yet, or removed by hand
OptionalFields == {"undoHistory", "lastCompletionDate", "inventory", "stats"}

StoredProfiles ==
    {NoFields} \cup
    { [ Restrict(SavedProfile, DOMAIN SavedProfile \ missing)
          EXCEPT !.stats = Restrict(@, kept) ] :
        missing \in SUBSET (OptionalFields \ {"stats"}),
        kept \in SUBSET DOMAIN SavedProfile.stats }
    \cup
    { Restrict(SavedProfile, DOMAIN SavedProfile \ (missing \cup {"stats"})) :
        missing \in SUBSET (OptionalFields \ {"stats"}) }

LoadInit ==
    /\ profile = NoFields
    /\ today = 1
    /\ hour \in Hours
    /\ now = 0
    /\ call = [ op |-> "none" ]
    /\ ret = [ void |-> TRUE ]
    /\ saveInvoked = FALSE
    /\ persisted \in StoredProfiles
    /\ undoCheck = NoCheck
    /\ undone = FALSE
    /\ recorded = <<>>
    /\ vault = <<>>
    /\ handlers = <<>>

\* onload: loadData_, then the service is constructed on the profile
LoadData ==
    /\ now = 0
    /\ profile' = loadData_(persisted)
    /\ call' = [ op |-> "loadData_" ]
    /\ ret' = [ void |-> TRUE ]
    /\ now' = 1
    /\ saveInvoked' = FALSE
    /\ UNCHANGED <<today, hour, persisted, undoCheck, undone, recorded, vault,
                   handlers>>

LoadedCompleteTask ==
    /\ now >= 1
    /\ now < MaxLoadTime
    /\ \E g \in Goals :
         /\ Finish(completeTask(profile, g.xp, g.isBoss, g.depth, g.created,
                                today, hour, <<NoDrop, NoDrop, NoDrop>>))
         /\ call' = [ op |-> "completeTask", xp |-> g.xp,
                      isBoss |-> g.isBoss, depth |-> g.depth,
                      createdDate |-> g.created, path |-> g.path ]
    /\ UNCHANGED <<today, hour, undoCheck, undone, recorded, vault,
                   handlers>>

LoadedPerformUndo ==
    /\ now >= 1
    /\ now < MaxLoadTime
    /\ Finish(performUndo(profile, today))
    /\ call' = [ op |-> "performUndo" ]
    /\ UNCHANGED <<today, hour, undoCheck, undone, recorded, vault,
                   handlers>>

LoadNext == LoadData \/ LoadedCompleteTask \/ LoadedPerformUndo

LoadSpec == LoadInit /\ [][LoadNext]_vars

----------------------------------------------------------------------------
(* The goal commands of the plugin: create a goal, toggle done, toggle boss *)

Names == { <<"Plan">>, <<"Ship">> }

\* goal notes written by hand, in the documented format, each in its folder
UserNotes ==
    { [ folderPath |-> << <<"Inbox">> >>,
        fileName |-> <<"Inbox">>,
        content |-> [ status |-> s, boss |-> FALSE, xp |-> 10,
                      deadline |-> "2025-12-31",
                      author |-> WikiLink("Your Name"),
                      blocker |-> << <<"none">> >>,
                      created |-> 1,
                      completed |-> IF s = "done" THEN 1 ELSE 0 ] ] :
      s \in GoalStatus }

NoteInit ==
    /\ profile = createDefaultProfile
    /\ today = 1
    /\ hour = 12
    /\ now = 0
    /\ call = [ op |-> "none" ]
    /\ ret = [ void |-> TRUE ]
    /\ saveInvoked = FALSE
    /\ persisted = createDefaultProfile
    /\ undoCheck = NoCheck
    /\ undone = FALSE
    /\ recorded = <<>>
    /\ vault \in {<<>>} \cup { <<n>> : n \in UserNotes }
    /\ handlers = <<>>

\* the folder of the active file, or the vault root
ParentPaths == {<<>>} \cup { vault[i].folderPath : i \in 1..Len(vault) }

\* createGoalManual, createRoomManual, createGoalsFromSchema
CreateGoal ==
    /\ now < MaxNoteTime
    /\ \E parentPath \in ParentPaths, name \in Names, isBoss \in BOOLEAN :
         LET out == createGoalWithNote(vault, parentPath, name, isBoss, 0,
                                       today)
         IN  /\ Len(out.vault) <= MaxNotes
             /\ vault' = out.vault
             /\ ret' = out.result
             /\ call' = [ op |-> "createGoalWithNote",
                          parentPath |-> parentPath, name |-> name,
                          isBoss |-> isBoss,
                          note |-> noteAt(out.vault, out.result.folderPath,
                                          out.result.notePath[2]) ]
    /\ now' = now + 1
    /\ saveInvoked' = FALSE
    /\ UNCHANGED <<profile, today, hour, persisted, undoCheck, undone,
                   recorded, handlers>>

\* toggleGoalDone with note i active
toggleGoalDone(p, v, i, day, hr, draws) ==
    LET toggled == toggleGoalStatus(v[i], day)
        config == toggled.config
        depth == calculateDepth(v[i].folderPath)
        path == <<v[i].folderPath, v[i].fileName>>
        completion == completeTask(p, config.xp, config.isBoss, depth,
                                   config.createdAt, day, hr, draws)
        entryAdded == addUndoEntry(completion.profile, path, config.xp,
                                   config.isBoss, day)
        undoResult == performUndo(p, day)
        isDone == toggled.newStatus = "done"
    IN  [ vault |-> [v EXCEPT ![i] = toggled.note],
          newStatus |-> toggled.newStatus,
          ledger |-> IF isDone THEN "completeTask" ELSE "performUndo",
          profile |-> IF isDone THEN entryAdded.profile
                      ELSE undoResult.profile,
          saved |-> IF isDone THEN TRUE ELSE undoResult.saved,
          result |-> IF isDone THEN completion.result ELSE undoResult.result ]

ToggleGoalDone ==
    /\ now < MaxNoteTime
    /\ \E i \in 1..Len(vault) :
         LET out == toggleGoalDone(profile, vault, i, today, hour,
                                   <<NoDrop, NoDrop, NoDrop>>)
         IN  /\ vault' = out.vault
             /\ Finish(out)
             /\ call' = [ op |-> "toggleGoalDone", note |-> i,
                          oldStatus |-> vault[i].content.status,
                          newStatus |-> out.newStatus,
                          ledger |-> out.ledger ]
    /\ UNCHANGED <<today, hour, undoCheck, undone, recorded, handlers>>

ToggleGoalBoss ==
    /\ now < MaxNoteTime
    /\ \E i \in 1..Len(vault) :
         LET out == toggleBossStatus(vault, i)
         IN  /\ vault' = out.vault
             /\ ret' = out.result
             /\ call' = [ op |-> "toggleBossStatus", note |-> i ]
    /\ now' = now + 1
    /\ saveInvoked' = FALSE
    /\ UNCHANGED <<profile, today, hour, persisted, undoCheck, undone,
                   recorded, handlers>>

NoteNext == CreateGoal \/ ToggleGoalDone \/ ToggleGoalBoss

NoteSpec == NoteInit /\ [][NoteNext]_vars

----------------------------------------------------------------------------
(* The toggle command as the event loop runs it: a handler runs from one    *)
(* await on vault or disk I/O to the next without interruption, and any     *)
(* other handler may run while it waits. A handler is                       *)
(*   note       the active file when the command was invoked                *)
(*   pc         the await it has reached                                    *)
(*   newStatus, config   what toggleGoalStatus returns                      *)
(*   granted    completeTask has applied its XP                             *)
(*   entered    addUndoEntry has recorded its UndoEntry                     *)
(*   reverted   the XP its performUndo took back, in a sequence             *)
(*   rejected   a save it awaited was rejected                              *)
(*   notice     the Notice it ended with                                    *)

\* two goals: a hand-written one, open or already marked done, and a boss
\* created by the plugin
AsyncVaults ==
    { createGoalWithNote(<<n>>, <<>>, <<"Plan">>, TRUE, 0, 1).vault :
        n \in { u \in UserNotes : u.content.status \in {"open", "done"} } }

AsyncInit ==
    /\ profile = createDefaultProfile
    /\ today = 1
    /\ hour = 12
    /\ now = 0
    /\ call = [ op |-> "none" ]
    /\ ret = [ void |-> TRUE ]
    /\ saveInvoked = FALSE
    /\ persisted = createDefaultProfile
    /\ undoCheck = NoCheck
    /\ undone = FALSE
    /\ recorded = <<>>
    /\ vault \in AsyncVaults
    /\ handlers = <<>>

InFlight == { h \in 1..Len(handlers) : handlers[h].pc # "done" }

AsyncFrame ==
    UNCHANGED <<today, hour, now, call, ret, saveInvoked, undoCheck, undone,
                recorded>>

\* variant: the error is swallowed
catchError_silent(handler) == [handler EXCEPT !.pc = "done"]

\* catch (error) { new Notice(`Error: ${error}`) }
catchError(handler) == [handler EXCEPT !.pc = "done", !.notice = "Error"]

\* the command is invoked on note i; isGoalNote awaits a read of the note
InvokeToggle ==
    /\ Len(handlers) < MaxHandlers
    /\ \E i \in 1..Len(vault) :
         handlers' = Append(handlers,
                            [ note |-> i,
                              pc |-> "parseGoalNote",
                              newStatus |-> "",
                              config |-> NoFields,
                              granted |-> FALSE,
                              entered |-> FALSE,
                              reverted |-> <<>>,
                              rejected |-> FALSE,
                              notice |-> "" ])
    /\ UNCHANGED <<profile, persisted, vault>>
    /\ AsyncFrame

\* toggleGoalStatus reads and parses the note and chooses the new status;
\* updateGoalNote then awaits its own read
ReadGoalNote ==
    /\ \E h \in 1..Len(handlers) :
         /\ handlers[h].pc = "parseGoalNote"
         /\ LET config == parseGoalNote(vault[handlers[h].note])
                newStatus == IF config.status = "done" THEN "open" ELSE "done"
                completedAt == IF newStatus = "done" THEN today ELSE 0
                updates == [ status |-> newStatus,
                             completedAt |-> completedAt ]
            IN  handlers' = [handlers EXCEPT ![h] =
                                [@ EXCEPT !.pc = "updateGoalNote",
                                          !.newStatus = newStatus,
                                          !.config = merged(config, updates)]]
    /\ UNCHANGED <<profile, persisted, vault>>
    /\ AsyncFrame

\* updateGoalNote parses the note as it is now and writes it back with the
\* new status
ModifyGoalNote ==
    /\ \E h \in 1..Len(handlers) :
         /\ handlers[h].pc = "updateGoalNote"
         /\ vault' = [vault EXCEPT ![handlers[h].note] =
                         updateGoalNote(@,
                             [ status |-> handlers[h].newStatus,
                               completedAt |->
                                   handlers[h].config.completedAt ])]
         /\ handlers' = [handlers EXCEPT ![h].pc = "ledger"]
    /\ UNCHANGED <<profile, persisted>>
    /\ AsyncFrame

\* lines 301-309 and 342: completeTask or performUndo up to the await in
\* save(), the saveCallback having been handed the profile
CallLedger ==
    /\ \E h \in 1..Len(handlers) :
         LET handler == handlers[h]
             config == handler.config
             depth == calculateDepth(vault[handler.note].folderPath)
             out == IF handler.newStatus = "done"
                    THEN completeTask(profile, config.xp, config.isBoss,
                                      depth, config.createdAt, today, hour,
                                      <<NoDrop, NoDrop, NoDrop>>)
                    ELSE performUndo(profile, today)
             threw == "threw" \in DOMAIN out.result
             called ==
                 IF handler.newStatus = "done"
                 THEN [handler EXCEPT !.granted = TRUE,
                                      !.pc = "completeTaskSave"]
                 ELSE IF out.saved
                 THEN [handler EXCEPT !.reverted = <<out.result.xpLost>>,
                                      !.pc = "performUndoSave"]
                 ELSE [handler EXCEPT !.pc = "done",
                                      !.notice = "Goal reopened"]
         IN  /\ handler.pc = "ledger"
             /\ profile' = out.profile
             /\ persisted' = IF out.saved THEN out.profile ELSE persisted
             /\ handlers' = [handlers EXCEPT ![h] =
                                IF threw THEN catchError(called) ELSE called]
    /\ UNCHANGED vault
    /\ AsyncFrame

\* the save a handler awaits is done: after completeTask the handler goes
\* on to addUndoEntry, up to the await in its save()
SaveResolves ==
    /\ \E h \in 1..Len(handlers) :
         LET handler == handlers[h]
             path == <<vault[handler.note].folderPath,
                       vault[handler.note].fileName>>
             out == addUndoEntry(profile, path, handler.config.xp,
                                 handler.config.isBoss, today)
         IN  \/ /\ handler.pc = "completeTaskSave"
                /\ profile' = out.profile
                /\ persisted' = out.profile
                /\ handlers' = [handlers EXCEPT ![h] =
                                   [@ EXCEPT !.entered = TRUE,
                                             !.pc = "addUndoEntrySave"]]
             \/ /\ handler.pc = "addUndoEntrySave"
                /\ handlers' = [handlers EXCEPT ![h] =
                                   [@ EXCEPT !.pc = "done",
                                             !.notice = "Completed"]]
                /\ UNCHANGED <<profile, persisted>>
             \/ /\ handler.pc = "performUndoSave"
                /\ handlers' = [handlers EXCEPT ![h] =
                                   [@ EXCEPT !.pc = "done",
                                             !.notice = "Goal reopened"]]
                /\ UNCHANGED <<profile, persisted>>
    /\ UNCHANGED vault
    /\ AsyncFrame

\* saveData rejects: the rejection passes through the saveCallback, save()
\* and the ledger call to the catch of toggleGoalDone
SaveRejects ==
    /\ \E h \in 1..Len(handlers) :
         /\ handlers[h].pc \in {"completeTaskSave", "addUndoEntrySave",
                                "performUndoSave"}
         /\ handlers' = [handlers EXCEPT ![h] =
                            catchError([@ EXCEPT !.rejected = TRUE])]
    /\ UNCHANGED <<profile, persisted, vault>>
    /\ AsyncFrame

AsyncNext ==
    \/ InvokeToggle
    \/ ReadGoalNote
    \/ ModifyGoalNote
    \/ CallLedger
    \/ SaveResolves
    \/ SaveRejects

AsyncSpec == AsyncInit /\ [][AsyncNext]_vars

----------------------------------------------------------------------------
(* Properties *)

IsPrefix(a, b) == Len(a) <= Len(b) /\ SubSeq(b, 1, Len(a)) = a
NoDuplicates(seq) == \A i, j \in 1..Len(seq) : seq[i] = seq[j] => i = j

\* the step just taken was a call of the named ledger operation
Called(op) == now' # now /\ call'.op = op

\* total experience at which a level is reached
RECURSIVE cumulativeXP(_)
cumulativeXP(level) ==
    IF level <= 1 THEN 0 ELSE cumulativeXP(level - 1) + xpForLevel(level - 1)

LevelsModelled == 2..8

\* C1: completing a goal (completeTask, then addUndoEntry with the same xp
\* and boss flag) and undoing it at once restores totalXP, tasksCompleted,
\* bossesDefeated and level, and the per-day count of the completion day
\* when the undo happens on that same day.
C1_UndoRestoresLedger ==
    undoCheck.stage = 3 =>
        LET before == undoCheck.before
        IN  /\ profile.totalXP = before.totalXP
            /\ profile.tasksCompleted = before.tasksCompleted
            /\ profile.bossesDefeated = before.bossesDefeated
            /\ profile.level = before.level
            /\ undoCheck.undoDay = undoCheck.day =>
                   profile.stats.completedByDay[undoCheck.day]
                       = before.stats.completedByDay[undoCheck.day]

C1_Witness ==
    /\ undoCheck.stage = 3
    /\ undoCheck.xp > 0
    /\ undoCheck.isBoss
    /\ undoCheck.undoDay = undoCheck.day
    /\ undoCheck.before.tasksCompleted > 0

\* C2: a successful performUndo leaves achievements, inventory, both
\* streaks, lastCompletionDate, deepestDepth, the speedrun and time-of-day
\* counters and every other day's count unchanged.
C2_UndoFrame ==
    [][(Called("performUndo") /\ ret'.success) =>
          /\ profile'.achievements = profile.achievements
          /\ profile'.inventory = profile.inventory
          /\ profile'.currentStreak = profile.currentStreak
          /\ profile'.longestStreak = profile.longestStreak
          /\ profile'.lastCompletionDate = profile.lastCompletionDate
          /\ profile'.stats.deepestDepth = profile.stats.deepestDepth
          /\ profile'.stats.speedruns = profile.stats.speedruns
          /\ profile'.stats.nightOwlTasks = profile.stats.nightOwlTasks
          /\ profile'.stats.earlyBirdTasks = profile.stats.earlyBirdTasks
          /\ \A d \in Days \ {today'} :
                 profile'.stats.completedByDay[d]
                     = profile.stats.completedByDay[d]]_vars

\* the undone completion had unlocked achievements and dropped loot
C2_Witness ==
    /\ undoCheck.stage = 3
    /\ Len(profile.achievements) > Len(undoCheck.before.achievements)
    /\ Len(profile.inventory) > Len(undoCheck.before.inventory)
    /\ profile.currentStreak > undoCheck.before.currentStreak

\* C3: after every ledger operation level = levelFromXP(totalXP).
C3_LevelMatchesXP == profile.level = levelFromXP(profile.totalXP)

\* an undo has taken the profile back below a level it had reached
C3_Witness ==
    /\ call.op = "performUndo"
    /\ ret.success
    /\ profile.level = 1
    /\ Includes(profile.achievements, <<"tasks", 1>>)
    /\ profile.inventory # <<>>
    /\ profile.inventory[Len(profile.inventory)].source = "levelup"

\* C4: longestStreak >= currentStreak in every state.
C4_LongestAtLeastCurrent == profile.longestStreak >= profile.currentStreak

C4_Witness ==
    /\ profile.currentStreak >= 2
    /\ call.op = "performUndo"
    /\ ret.success

\* C5: undoHistory has at most 10 entries, most recent first, and after n
\* completions with no undo it is exactly the min(n, 10) most recent ones.
C5_UndoHistoryBounded ==
    /\ Len(profile.undoHistory) <= 10
    /\ \A i, j \in 1..Len(profile.undoHistory) :
           i < j => profile.undoHistory[i].path > profile.undoHistory[j].path
    /\ ~undone =>
           profile.undoHistory
               = SubSeq(recorded, 1, Min(Len(recorded), 10))

\* the 11th completion has evicted the first one
C5_Witness ==
    /\ ~undone
    /\ Len(recorded) = 11
    /\ Len(profile.undoHistory) = 10
    /\ profile.undoHistory[10].path = recorded[10].path

\* C6: performUndo on an empty or missing undoHistory returns
\* success = false, xpLost = 0, 'Nothing to undo', changes no profile field
\* and does not invoke the persistence callback.
C6_EmptyUndoIsNoOp ==
    [][(Called("performUndo") /\ nothingToUndo(profile)) =>
          /\ ret' = [ success |-> FALSE, xpLost |-> 0,
                      message |-> <<"Nothing to undo">> ]
          /\ profile' = profile
          /\ ~saveInvoked'
          /\ persisted' = persisted]_vars

\* an empty undo after the ledger has been written to
C6_Witness ==
    /\ call.op = "performUndo"
    /\ ~ret.success
    /\ saveInvoked = FALSE
    /\ profile.tasksCompleted > 0
    /\ "undoHistory" \in DOMAIN profile

\* C7: totalXP, tasksCompleted, bossesDefeated and every per-day count are
\* never negative.
C7_CountersNonNegative ==
    /\ profile.totalXP >= 0
    /\ profile.tasksCompleted >= 0
    /\ profile.bossesDefeated >= 0
    /\ \A d \in Days : profile.stats.completedByDay[d] >= 0

\* an entry worth XP was undone on a ledger that had never been credited:
\* no completion ever happened (the first one always unlocks tasks_1)
C7_Witness ==
    /\ call.op = "performUndo"
    /\ ret.success
    /\ ret.xpLost > 0
    /\ profile.achievements = <<>>
    /\ profile.totalXP = 0

\* C8: the achievements list never holds an id twice and never loses one:
\* the list before a step is a prefix of the list after it, and evaluating
\* again with unchanged counters adds nothing.
C8_AchievementsAppendOnly ==
    [][/\ IsPrefix(profile.achievements, profile'.achievements)
       /\ NoDuplicates(profile'.achievements)
       /\ Called("completeTask") =>
              checkAchievements(profile', call'.createdDate, today', hour')
                  = [ achievements |-> profile'.achievements,
                      newAchievements |-> <<>> ]]_vars

\* a second completion found ids already unlocked and added new ones
C8_Witness ==
    /\ call.op = "completeTask"
    /\ ret.newAchievements # <<>>
    /\ Len(profile.achievements) > Len(ret.newAchievements)
    /\ undone

\* C9: levelUp holds exactly when the completion takes totalXP across a
\* cumulative level threshold, oldLevel and newLevel are levelFromXP of
\* totalXP before and after; with 10-XP goals level 2 comes with the
\* completion that reaches 100 XP and with none below.
C9_LevelUpAtThreshold ==
    [][Called("completeTask") =>
          /\ ret'.levelUp =
                 (\E l \in LevelsModelled :
                      /\ profile.totalXP < cumulativeXP(l)
                      /\ cumulativeXP(l) <= profile'.totalXP)
          /\ ret'.oldLevel = levelFromXP(profile.totalXP)
          /\ ret'.newLevel = levelFromXP(profile'.totalXP)
          /\ profile'.totalXP < 100 => (~ret'.levelUp /\ profile'.level = 1)
          /\ profile'.totalXP = 100 => (ret'.levelUp /\ profile'.level = 2)]_vars

\* the tenth 10-XP completion of a ledger that holds ten of them
C9_Witness ==
    /\ call.op = "completeTask"
    /\ ret.levelUp
    /\ ret.oldLevel = 1
    /\ ret.newLevel = 2
    /\ profile.totalXP = 100
    /\ profile.tasksCompleted = 10

\* C10: completeTask adds exactly the xp argument to totalXP, 1 to
\* tasksCompleted, 1 to bossesDefeated iff isBoss, and returns xpGained = xp.
C10_AppliesGivenXP ==
    [][Called("completeTask") =>
          /\ profile'.totalXP = profile.totalXP + call'.xp
          /\ profile'.tasksCompleted = profile.tasksCompleted + 1
          /\ profile'.bossesDefeated =
                 profile.bossesDefeated + (IF call'.isBoss THEN 1 ELSE 0)
          /\ ret'.xpGained = call'.xp]_vars

\* a boss goal whose xp field is not what calculateXP gives for its depth
C10_Witness ==
    /\ call.op = "completeTask"
    /\ call.isBoss
    /\ call.xp # (10 + call.depth * 5) * 3
    /\ profile.totalXP > call.xp

\* the pure function named has been applied to the argument in call
Returned(op) == call.op = op /\ now = 1

\* the levels whose cumulative requirement is compared with xp
LevelRange == 1..12

\* C11: for every xp >= 0 levelFromXP(xp) is the largest level L whose
\* cumulative requirement xpForLevel(1) + ... + xpForLevel(L - 1) is at most
\* xp; it is at least 1, exactly 1 at xp = 0, and no smaller experience
\* total gives a higher level.
C11_LevelFromXPIsLargest ==
    Returned("levelFromXP") =>
        /\ ret.level >= 1
        /\ ret.level + 1 \in LevelRange
        /\ \A l \in LevelRange :
               (cumulativeXP(l) <= call.xp) <=> (l <= ret.level)
        /\ call.xp = 0 => ret.level = 1
        /\ \A y \in 0..call.xp : levelFromXP(y) <= ret.level

\* the experience total that exactly meets the requirement of level 3
C11_Witness ==
    /\ Returned("levelFromXP")
    /\ call.xp = 250
    /\ ret.level = 3

\* C12: for every xp >= 0 xpToNextLevel(xp) returns 0 <= current < required
\* with required = xpForLevel(levelFromXP(xp)), and
\* progress = floor(100 * current / required), which lies in 0..99.
C12_ProgressRoundedDown ==
    Returned("xpToNextLevel") =>
        /\ 0 <= ret.current
        /\ ret.current < ret.required
        /\ ret.required = xpForLevel(levelFromXP(call.xp))
        /\ ret.current = call.xp - cumulativeXP(levelFromXP(call.xp))
        /\ ret.progress = (100 * ret.current) \div ret.required
        /\ ret.progress \in 0..99

\* C13: for every level in 0..200 the five rarity weights of getDropChances
\* are non-negative and sum to 1 (1000 thousandths).
C13_WeightsSumToOne ==
    Returned("getDropChances") =>
        LET w == ret.rarityWeights
        IN  /\ DOMAIN w = {"common", "uncommon", "rare", "epic", "legendary"}
            /\ \A r \in DOMAIN w : w[r] >= 0
            /\ w.common + w.uncommon + w.rare + w.epic + w.legendary = 1000

\* every cap is in force: level 200
C13_Witness ==
    /\ Returned("getDropChances")
    /\ call.level = MaxLevel
    /\ ret.rarityWeights.uncommon = 300
    /\ ret.rarityWeights.legendary = 50
    /\ ret.rarityWeights.common = 350

\* C14: for every level >= 0 and every source the adjusted drop probability
\* of rollForLoot lies in [0.05, 0.95]: a drop roll of at most 0.05 always
\* drops and one above 0.95 never does.
C14_DropRateInRange ==
    Returned("rollForLoot") =>
        LET rate == adjustedDropRate(call.level, call.source)
        IN  /\ 50 <= rate
            /\ rate <= 950
            /\ ret.dropped = (call.draw[1] <= rate)
            /\ call.draw[1] <= 50 => ret.dropped
            /\ call.draw[1] > 950 => ~ret.dropped

\* a plain task at a level where the 5% floor is in force drops on a roll
\* of exactly 0.05
C14_Witness ==
    /\ Returned("rollForLoot")
    /\ call.level = 40
    /\ call.source = "task"
    /\ call.draw[1] = 50
    /\ ret.dropped

Last(seq) == seq[Len(seq)]

C20_DonePrefix ==
    call.op = "toggleGoalDone" =>
        LET note == vault[call.note]
            folderName == Last(note.folderPath)
            hasPrefix(name) == name # <<>> /\ Head(name) = "[DONE]"
        IN  IF note.content.status = "done"
            THEN hasPrefix(folderName) /\ hasPrefix(note.fileName)
            ELSE ~hasPrefix(folderName) /\ ~hasPrefix(note.fileName)

\* C16: the profile loaded from the stored plugin data has every field of
\* the default profile, the five counters of the stats bag included, and a
\* completeTask or performUndo after the load does not fail on a missing
\* field.
C16_LoadedProfileComplete ==
    now >= 1 =>
        /\ DOMAIN createDefaultProfile \subseteq DOMAIN profile
        /\ DOMAIN createDefaultProfile.stats \subseteq DOMAIN profile.stats
        /\ "threw" \notin DOMAIN ret

\* the threshold table and the counter of each category
Categories(p) ==
    { [ type |-> "tasks", table |-> ACHIEVEMENT_THRESHOLDS.tasks,
        counter |-> p.tasksCompleted ],
      [ type |-> "bosses", table |-> ACHIEVEMENT_THRESHOLDS.bosses,
        counter |-> p.bossesDefeated ],
      [ type |-> "streak", table |-> ACHIEVEMENT_THRESHOLDS.streaks,
        counter |-> p.currentStreak ],
      [ type |-> "depth", table |-> ACHIEVEMENT_THRESHOLDS.depths,
        counter |-> p.stats.deepestDepth ],
      [ type |-> "level", table |-> ACHIEVEMENT_THRESHOLDS.levels,
        counter |-> p.level ],
      [ type |-> "xp", table |-> ACHIEVEMENT_THRESHOLDS.xp,
        counter |-> p.totalXP ] }

\* C18: after every completeTask, each id <category>_<threshold> whose
\* threshold the category's counter meets or exceeds is in achievements,
\* and newAchievements is exactly the ids the call added, none of which
\* was already present.
C18_ThresholdsUnlocked ==
    [][Called("completeTask") =>
          /\ \A c \in Categories(profile') :
                 \A k \in 1..Len(c.table) :
                     c.counter >= c.table[k] =>
                         Includes(profile'.achievements, <<c.type, c.table[k]>>)
          /\ IsPrefix(profile.achievements, profile'.achievements)
          /\ ret'.newAchievements =
                 SubSeq(profile'.achievements, Len(profile.achievements) + 1,
                        Len(profile'.achievements))
          /\ \A k \in 1..Len(ret'.newAchievements) :
                 ~Includes(profile.achievements, ret'.newAchievements[k])]_vars

\* a third day in a row and a goal three folders deep: new ids are
\* reported, tasks_1 is still met and is not reported again
C18_Witness ==
    /\ call.op = "completeTask"
    /\ Includes(ret.newAchievements, <<"streak", 3>>)
    /\ Includes(ret.newAchievements, <<"depth", 3>>)
    /\ Includes(profile.achievements, <<"tasks", 1>>)
    /\ ~Includes(ret.newAchievements, <<"tasks", 1>>)

SpecialIds == {"speedrun", "nightowl", "earlybird"}

Occurrences(seq, x) == Cardinality({ k \in 1..Len(seq) : seq[k] = x })

\* C19: a completion unlocks speedrun exactly when the goal's creation date
\* is the completion date, nightowl exactly when the hour is in 0..4 and
\* earlybird exactly when it is in 5..6; an id already unlocked is neither
\* added nor reported again.
C19_SpecialAchievements ==
    [][Called("completeTask") =>
          LET met == [ speedrun |-> /\ call'.createdDate # 0
                                    /\ call'.createdDate = today',
                       nightowl |-> hour' \in 0..4,
                       earlybird |-> hour' \in 5..6 ]
          IN  \A id \in SpecialIds :
                  /\ Includes(profile'.achievements, <<id, 0>>)
                         = (met[id] \/ Includes(profile.achievements, <<id, 0>>))
                  /\ Includes(ret'.newAchievements, <<id, 0>>)
                         = (met[id] /\ ~Includes(profile.achievements, <<id, 0>>))
                  /\ Occurrences(profile'.achievements, <<id, 0>>) <= 1
                  /\ Occurrences(ret'.newAchievements, <<id, 0>>) <= 1]_vars

\* a second same-day completion in the early-bird hours: both ids are
\* held and neither is reported again
C19_Witness ==
    /\ call.op = "completeTask"
    /\ hour = 6
    /\ call.createdDate = today
    /\ profile.tasksCompleted >= 2
    /\ profile.stats.speedruns >= 2
    /\ Occurrences(profile.achievements, <<"speedrun", 0>>) = 1
    /\ Occurrences(profile.achievements, <<"earlybird", 0>>) = 1
    /\ ~Includes(ret.newAchievements, <<"speedrun", 0>>)
    /\ ~Includes(ret.newAchievements, <<"earlybird", 0>>)

\* C21: completeTask updates the streak from the whole-day gap between
\* lastCompletionDate and today: no prior completion sets currentStreak to
\* 1, a gap of exactly one day increments it, a larger gap resets it to 1
\* and a same-day completion leaves it unchanged; afterwards longestStreak
\* is the larger of its old value and currentStreak, and
\* lastCompletionDate is today.
C21_StreakFromGap ==
    [][ Called("completeTask") =>
          LET last == profile.lastCompletionDate
              gap == today' - last
          IN  /\ last = 0 => profile'.currentStreak = 1
              /\ last # 0 /\ gap = 1 =>
                     profile'.currentStreak = profile.currentStreak + 1
              /\ last # 0 /\ gap > 1 => profile'.currentStreak = 1
              /\ last # 0 /\ gap = 0 =>
                     profile'.currentStreak = profile.currentStreak
              /\ profile'.longestStreak =
                     Max(profile.longestStreak, profile'.currentStreak)
              /\ profile'.lastCompletionDate = today' ]_vars

\* a same-day completion, then one a day later, then one two days after
\* the first of a new run: the streak has grown to 2 and has been reset
C21_Witness ==
    /\ call.op = "completeTask"
    /\ profile.tasksCompleted = 3
    /\ profile.lastCompletionDate = 3
    /\ profile.currentStreak = 1
    /\ profile.longestStreak = 1
    /\ profile.stats.completedByDay[1] = 2

\* C22: a completion makes one loot roll with source boss (if isBoss) or
\* task, one more with source levelup iff it levelled up and one more with
\* source achievement iff it unlocked an achievement; the successful rolls
\* are appended to the inventory in that order, and lootDropped is the
\* first of them, absent iff none succeeded.
C22_LootRollOrder ==
    [][ Called("completeTask") =>
          LET rolls ==
                  << [ source |-> IF call'.isBoss THEN "boss" ELSE "task",
                       made |-> TRUE,
                       draw |-> call'.draws[1] ],
                     [ source |-> "levelup",
                       made |-> profile'.level > profile.level,
                       draw |-> call'.draws[2] ],
                     [ source |-> "achievement",
                       made |-> Len(profile'.achievements)
                                    > Len(profile.achievements),
                       draw |-> call'.draws[3] ] >>
              Succeeded(r) ==
                  /\ r.made
                  /\ r.draw[1] <= adjustedDropRate(profile'.level, r.source)
              won == SelectSeq(rolls, Succeeded)
              gained == SubSeq(profile'.inventory,
                               Len(profile.inventory) + 1,
                               Len(profile'.inventory))
          IN  /\ IsPrefix(profile.inventory, profile'.inventory)
              /\ Len(gained) = Len(won)
              /\ \A k \in 1..Len(won) : gained[k].source = won[k].source
              /\ ret'.lootDropped =
                     IF won = <<>> THEN <<>> ELSE <<gained[1]>> ]_vars

\* the boss roll failed, the level-up and achievement rolls succeeded: the
\* level-up item is the one reported and both are in the inventory
C22_Witness ==
    /\ call.op = "completeTask"
    /\ call.draws = <<NoDrop, AllDrop, AllDrop>>
    /\ ret.lootDropped # <<>>
    /\ ret.lootDropped[1].source = "levelup"
    /\ Len(profile.inventory) >= 2
    /\ Last(profile.inventory).source = "achievement"

\* C28: toggling a goal's status rewrites only the status and completed
\* fields of its note: the xp, boss, deadline, blocker, created and author
\* fields are the same after the toggle as before it.
C28_ToggleKeepsOtherFields ==
    [][ Called("toggleGoalDone") =>
          \A f \in {"xp", "boss", "deadline", "blocker", "created", "author"} :
              vault'[call'.note].content[f] = vault[call'.note].content[f]
      ]_vars

\* C26: reopening a done goal G through the toggle command removes exactly
\* the XP and boss count that G's own completion granted: the UndoEntry
\* that performUndo consumes is the one recorded for G, whatever was
\* completed or reopened in between. (An entry is recognised by the file
\* name of its path: a boss toggle may have renamed the folder since.)
C26_UndoMatchesGoal ==
    [][ /\ Called("toggleGoalDone")
        /\ call'.newStatus = "open"
        /\ ret'.success
        => LET entry == Head(profile.undoHistory)
           IN  /\ entry.path[2] = vault[call'.note].fileName
               /\ profile'.totalXP = profile.totalXP - entry.xpLost
               /\ profile'.bossesDefeated =
                      profile.bossesDefeated - (IF entry.wasBoss THEN 1 ELSE 0)
      ]_vars

\* C29: in every state reached from the default profile by completions and
\* undos, each one-shot achievement agrees with its stats counter: speedrun
\* is unlocked iff stats.speedruns >= 1, nightowl iff stats.nightOwlTasks
\* >= 1 and earlybird iff stats.earlyBirdTasks >= 1.
C29_SpecialAgreeWithStats ==
    /\ Includes(profile.achievements, <<"speedrun", 0>>)
           <=> profile.stats.speedruns >= 1
    /\ Includes(profile.achievements, <<"nightowl", 0>>)
           <=> profile.stats.nightOwlTasks >= 1
    /\ Includes(profile.achievements, <<"earlybird", 0>>)
           <=> profile.stats.earlyBirdTasks >= 1

RECURSIVE SumSeq(_)
SumSeq(seq) == IF Len(seq) = 0 THEN 0 ELSE seq[1] + SumSeq(Tail(seq))

\* handler h has just called completeTask or performUndo
CallsLedger(h) == handlers[h].pc = "ledger" /\ handlers'[h].pc # "ledger"

\* C23: a goal completion records its UndoEntry in the same uninterrupted
\* ledger step as its XP and counters: no other event that is serviced
\* while the completion awaits I/O, such as a toggle that calls
\* performUndo, finds the profile with the completion's XP applied and its
\* UndoEntry not yet in undoHistory.
C23_EntryWithCompletion ==
    [][ \A k \in 1..Len(handlers) :
            CallsLedger(k) =>
                \A h \in 1..Len(handlers) \ {k} :
                    ~(handlers[h].pc = "completeTaskSave") ]_vars

\* C24: when the save awaited by completeTask or performUndo is rejected,
\* the XP and counters already applied to the profile stay as they are, the
\* handler goes no further and the command ends with an error notice.
C24_RejectedSaveKeepsMutation ==
    [][ \A h \in 1..Len(handlers) :
            /\ handlers[h].pc \in {"completeTaskSave", "performUndoSave"}
            /\ handlers'[h].rejected
            => /\ profile' = profile
               /\ handlers[h].granted \/ handlers[h].reverted # <<>>
               /\ handlers'[h].granted = handlers[h].granted
               /\ handlers'[h].entered = FALSE
               /\ handlers'[h].reverted = handlers[h].reverted
               /\ handlers'[h].pc = "done"
               /\ handlers'[h].notice = "Error" ]_vars

\* one rejected completion, whose 45 XP stay without an UndoEntry, and one
\* rejected undo, whose 10 XP stay taken back
C24_Witness ==
    \E h, k \in 1..Len(handlers) :
        /\ handlers[h].rejected /\ handlers[h].granted /\ ~handlers[h].entered
        /\ handlers[k].rejected /\ handlers[k].reverted = <<10>>
        /\ handlers[h].notice = "Error" /\ handlers[k].notice = "Error"
        /\ profile.totalXP = 45
        /\ profile.undoHistory = <<>>

\* C25: when a second completeTask starts while the first still awaits its
\* persist, no update is lost: every completion made is counted in totalXP
\* and tasksCompleted (less what undos took back), and the snapshot last
\* handed to the persistence callback holds the same totals.
C25_NoLostUpdate ==
    LET all == 1..Len(handlers)
        grantedXP == [ h \in all |-> IF handlers[h].granted
                                     THEN handlers[h].config.xp ELSE 0 ]
        revertedXP == [ h \in all |-> SumSeq(handlers[h].reverted) ]
        completions == Cardinality({ h \in all : handlers[h].granted })
        undos == Cardinality({ h \in all : handlers[h].reverted # <<>> })
    IN  /\ profile.totalXP = SumSeq(grantedXP) - SumSeq(revertedXP)
        /\ profile.tasksCompleted = completions - undos
        /\ persisted.totalXP = profile.totalXP
        /\ persisted.tasksCompleted = profile.tasksCompleted

\* both completions of two different goals await their persist: 10 + 45 XP
C25_Witness ==
    \E h, k \in 1..Len(handlers) :
        /\ h # k
        /\ handlers[h].note # handlers[k].note
        /\ handlers[h].pc = "completeTaskSave"
        /\ handlers[k].pc = "completeTaskSave"
        /\ profile.totalXP = 55
        /\ profile.tasksCompleted = 2
        /\ persisted = profile

\* C27: when two toggle commands for the same open goal overlap, the goal's
\* XP is granted at most once and at most one UndoEntry is recorded for it.
C27_GrantedOnce ==
    \A h, k \in InFlight :
        h # k /\ handlers[h].note = handlers[k].note
        => /\ ~(handlers[h].granted /\ handlers[k].granted)
           /\ ~(handlers[h].entered /\ handlers[k].entered)

\* C30: through the complete / reopen flow of the plugin, overlapping
\* events included, undoHistory never over-counts the ledger: it has at
\* most tasksCompleted entries, at most bossesDefeated boss entries, and
\* its xpLost values sum to at most totalXP, so that the floors of
\* performUndo never clamp.
C30_HistoryWithinLedger ==
    LET history == profile.undoHistory
        entries == 1..Len(history)
    IN  /\ Len(history) <= profile.tasksCompleted
        /\ Cardinality({ k \in entries : history[k].wasBoss })
               <= profile.bossesDefeated
        /\ SumSeq([ k \in entries |-> history[k].xpLost ]) <= profile.totalXP

\* a completion was recorded, then a second completion and an undo
\* overlapped: the undo took the first entry while the second completion
\* awaited its persist, and the history now holds exactly the ledger
C30_Witness ==
    /\ Cardinality(InFlight) >= 2
    /\ \E h \in InFlight : handlers[h].reverted # <<>>
    /\ \E h \in InFlight : handlers[h].entered
    /\ Len(profile.undoHistory) = 1
    /\ profile.tasksCompleted = 1
    /\ profile.bossesDefeated = 1
    /\ profile.undoHistory[1].wasBoss
    /\ profile.totalXP = profile.undoHistory[1].xpLost

====
